---- MODULE Spec2Model ----
(***************************************************************************)
(* Model of libstd/encoding/utf16.rs: the UTF-16 encoder and decoder       *)
(* iterators (UTF16Encoder::next, UTF16Decoder::next), the variant         *)
(* constructors (encode / decode) and the out_of_range / invalid_byte      *)
(* conditions of libstd/encoding/mod.rs.                                   *)
(*                                                                         *)
(* Option<T> values are modelled as sequences of length <= 1:              *)
(*   None = << >>, Some(x) = << x >>.                                      *)
(* Bytes are integers 0..255, code units 0..65535, chars are integers.     *)
(***************************************************************************)
EXTENDS Integers, Sequences, FiniteSets, TLC

(* ------------------------------------------------------------------ *)
(* Bounds of the model                                                 *)
(* ------------------------------------------------------------------ *)
\* longest code point source handed to the encoder
MaxChars == 2
\* most complete byte pairs in a byte stream handed directly to the decoder
MaxUnits == 3
\* most complete byte pairs in a byte stream handed to reencode
MaxReUnits == 2

(* ------------------------------------------------------------------ *)
(* Program constants                                                   *)
(* ------------------------------------------------------------------ *)
\* char::ReplacementChar, U+FFFD
ReplacementChar == 65533
\* 0xFEFFu16, the byte order mark written by the encoder
BOM == 65279
\* 0xD800, 0xDBFF, 0xDC00, 0xDFFF: the surrogate ranges
LeadMin == 55296
LeadMax == 56319
TrailMin == 56320
TrailMax == 57343
\* 0x10FFFF, the largest scalar; 0xFFFF, the largest single-unit scalar
MaxScalar == 1114111
MaxBMP == 65535
\* 0x10000, the offset of the supplementary planes
SuppBase == 65536
\* the length of UTF16Encoder.buf
BufLen == 4

None == << >>
Some(x) == << x >>

(* ------------------------------------------------------------------ *)
(* Inputs                                                              *)
(* ------------------------------------------------------------------ *)
\* the three values of enum utf16
Variants == {"utf16", "utf16be", "utf16le"}

\* code points offered to the encoder: 'A', U+FEFF, U+FFFE, U+10000,
\* U+1F8B3, U+21E33 (the first char of test_utf16be_encode's c), U+10FFFF
\* (valid); 0xD800, 0xDFFF, 0x110000 (invalid)
ValidChars == {65, 65279, 65534, 65536, 129203, 138803, 1114111}
InvalidChars == {55296, 57343, 1114112}
Chars == ValidChars \cup InvalidChars

\* the characters a handler may hand back in EncodeAs / DecodeAs: '?' and a
\* trail surrogate for the encoder, a lead surrogate for the decoder (a char
\* holds any 32-bit value: the encoder finds the surrogates out of range)
EncodeAsChars == {63, 56320}
DecodeAsChars == {55296}

\* byte pairs offered to the decoder: 'A' big-endian (U+4100 little-endian),
\* a lead and a trail surrogate in both orders (ordinary units in the other
\* order), a second big-endian lead (0xD801), the BOM in both orders
BytePairs == { <<0, 65>>, <<216, 0>>, <<0, 216>>, <<216, 1>>,
               <<220, 0>>, <<0, 220>>, <<254, 255>>, <<255, 254>> }
\* a stray last byte of an odd-length stream
OddBytes == {66}

RECURSIVE SeqsUpTo(_, _)
SeqsUpTo(S, n) ==
    IF n = 0 THEN { << >> }
    ELSE LET shorter == SeqsUpTo(S, n - 1)
         IN  shorter \cup { Append(s, x) : s \in shorter, x \in S }

RECURSIVE Flatten(_)
Flatten(ss) == IF ss = << >> THEN << >> ELSE Head(ss) \o Flatten(Tail(ss))

CharSources == SeqsUpTo(Chars, MaxChars)
ByteStreams ==
    LET whole == { Flatten(ps) : ps \in SeqsUpTo(BytePairs, MaxUnits) }
    IN  whole \cup { Append(w, b) : w \in whole, b \in OddBytes }
\* the streams handed to reencode: no second lead
ReStreams ==
    LET whole == { Flatten(ps) : ps \in SeqsUpTo(BytePairs \ { <<216, 1>> }, MaxReUnits) }
    IN  whole \cup { Append(w, b) : w \in whole, b \in OddBytes }

(* ------------------------------------------------------------------ *)
(* encoding/mod.rs: the resolutions of the two conditions              *)
(* ------------------------------------------------------------------ *)
OutOfRangeResolution ==
    { [tag |-> t, c |-> 0] : t \in {"EncodeAsReplacementChar", "SkipOutOfRangeChar",
                                    "TruncateEncoding", "FailEncoding"} }
    \cup { [tag |-> "EncodeAs", c |-> c] : c \in EncodeAsChars }

InvalidByteResolution ==
    { [tag |-> t, c |-> 0] : t \in {"DecodeAsReplacementChar", "SkipInvalidByte",
                                    "TruncateDecoding", "FailDecoding"} }
    \cup { [tag |-> "DecodeAs", c |-> c] : c \in DecodeAsChars }

\* out_of_range_raise whose default skips the char
out_of_range_raise_skip(handler) ==
    IF handler THEN OutOfRangeResolution
    ELSE { [tag |-> "SkipOutOfRangeChar", c |-> 0] }

\* cond.raise_default(c, || EncodeAsReplacementChar): the handler's answer
\* when one is trapped, the default otherwise
out_of_range_raise(handler) ==
    IF handler THEN OutOfRangeResolution
    ELSE { [tag |-> "EncodeAsReplacementChar", c |-> 0] }

\* cond.raise_default(arg, || DecodeAsReplacementChar)
invalid_byte_raise(handler) ==
    IF handler THEN InvalidByteResolution
    ELSE { [tag |-> "DecodeAsReplacementChar", c |-> 0] }

(* ------------------------------------------------------------------ *)
(* Helpers of the encoder                                              *)
(* ------------------------------------------------------------------ *)
\* fn is_valid(c: u32) -> bool
is_valid(c) ==
    (c < LeadMin \/ c > LeadMax) /\ (c < TrailMin \/ c > TrailMax) /\ c <= MaxScalar

\* u16::iter_bytes(lsb0, f): the two bytes handed to f
iter_bytes(u, lsb0) ==
    IF lsb0 THEN << u % 256, (u \div 256) % 256 >>
    ELSE << (u \div 256) % 256, u % 256 >>

Min(a, b) == IF a < b THEN a ELSE b

\* buf.mut_slice(at, 4).copy_from(b): the buffer afterwards (0-based at)
copy_from(buf, at, b) ==
    [ i \in 1..BufLen |->
        IF i > at /\ i <= at + Len(b) THEN b[i - at] ELSE buf[i] ]
\* ... and the number of bytes copied, which copy_from returns
copy_count(at, b) == Min(Len(b), BufLen - at)

\* units_of without the subtraction of 0x10000 (line 98)
units_of_no_offset(c) ==
    IF c > MaxBMP
    THEN << (LeadMin + (c \div 1024)) % 65536, (TrailMin + (c % 1024)) % 65536 >>
    ELSE << c % 65536 >>

\* lines 97-100: the code units of a validated char
units_of(c) ==
    IF c > MaxBMP
    THEN LET d == c - SuppBase
         IN  << (LeadMin + (d \div 1024)) % 65536, (TrailMin + (d % 1024)) % 65536 >>
    ELSE << c % 65536 >>


(* ------------------------------------------------------------------ *)
(* State                                                               *)
(* ------------------------------------------------------------------ *)
VARIABLES
    enc,        \* struct UTF16Encoder: iter, bom, big, buf, lo, hi
    dec,        \* struct UTF16Decoder: iter, bom, big, c
    phase,      \* "enc": the encoder is being drained; "dec": the decoder is;
                \* "re": the encoder built over the decoder (reencode) is
    src0,       \* the code points the encoder was constructed over
    encV,       \* the variant the encoder was constructed with
    e_handler,  \* whether an out_of_range handler is trapped
    e_ret,      \* what the last UTF16Encoder::next returned
    e_out,      \* every byte UTF16Encoder::next has returned, in order
    e_eos,      \* whether UTF16Encoder::next has returned None
    e_log,      \* the out_of_range raises so far: argument and resolution
    e_staged,   \* the chars whose bytes were written to buf, in order
    bytes0,     \* the bytes the decoder was constructed over
    decV,       \* the variant the decoder was constructed with
    d_handler,  \* whether an invalid_byte handler is trapped
    d_ret,      \* what the last UTF16Decoder::next returned
    d_out,      \* every char UTF16Decoder::next has returned, in order
    d_eos,      \* whether UTF16Decoder::next has returned None
    d_log       \* the invalid_byte raises so far: argument, resolution, the
                \* number of bytes left in the stream when raised, and (nout)
                \* the number of chars next() had returned before the call

encVars == << enc, src0, encV, e_handler, e_ret, e_out, e_eos, e_log, e_staged >>
decVars == << dec, bytes0, decV, d_handler, d_ret, d_out, d_eos, d_log >>
vars == << encVars, decVars, phase >>

\* return values of next(): nothing yet, None, Some(v), or the task failed
NoCall == [kind |-> "NoCall", v |-> 0]
RetNone == [kind |-> "None", v |-> 0]
RetSome(v) == [kind |-> "Some", v |-> v]
RetFail == [kind |-> "Fail", v |-> 0]

(* ------------------------------------------------------------------ *)
(* impl Encoder for utf16 (utf16.rs 34-45)                             *)
(* ------------------------------------------------------------------ *)
\* encode that leaves bom clear for every variant
encode_no_bom(variant, src) ==
    [ iter |-> src,
      bom  |-> FALSE,
      big  |-> (variant # "utf16le"),
      buf  |-> [i \in 1..BufLen |-> 0],
      lo   |-> 0,
      hi   |-> 0 ]

encode(variant, src) ==
    [ iter |-> src,
      bom  |-> (variant = "utf16"),
      big  |-> (variant # "utf16le"),
      buf  |-> [i \in 1..BufLen |-> 0],
      lo   |-> 0,
      hi   |-> 0 ]

(* ------------------------------------------------------------------ *)
(* UTF16Encoder::next (utf16.rs 68-115)                                *)
(* ------------------------------------------------------------------ *)
\* lines 71-75: write the BOM into buf when one is pending
encoder_bom(e) ==
    IF e.bom
    THEN LET b == iter_bytes(BOM, ~e.big)
         IN  [e EXCEPT !.lo = 0, !.buf = copy_from(e.buf, 0, b),
                       !.hi = copy_count(0, b), !.bom = FALSE]
    ELSE e

\* encoder_stage that leaves lo where it is
encoder_stage_keep_lo(e, c) ==
    LET us == units_of(c)
    IN  IF c > MaxBMP
        THEN LET b1 == iter_bytes(us[1], ~e.big)
                 n1 == copy_count(0, b1)
                 buf1 == copy_from(e.buf, 0, b1)
                 b2 == iter_bytes(us[2], ~e.big)
             IN  [e EXCEPT !.buf = copy_from(buf1, n1, b2),
                           !.hi = n1 + copy_count(n1, b2)]
        ELSE LET b == iter_bytes(us[1], ~e.big)
             IN  [e EXCEPT !.buf = copy_from(e.buf, 0, b),
                           !.hi = copy_count(0, b)]

\* lines 96-108: write the units of the validated char c into buf
encoder_stage(e, c) ==
    LET us == units_of(c)
    IN  IF c > MaxBMP
        THEN LET b1 == iter_bytes(us[1], ~e.big)
                 n1 == copy_count(0, b1)
                 buf1 == copy_from(e.buf, 0, b1)
                 b2 == iter_bytes(us[2], ~e.big)
             IN  [e EXCEPT !.lo = 0, !.buf = copy_from(buf1, n1, b2),
                           !.hi = n1 + copy_count(n1, b2)]
        ELSE LET b == iter_bytes(us[1], ~e.big)
             IN  [e EXCEPT !.lo = 0, !.buf = copy_from(e.buf, 0, b),
                           !.hi = copy_count(0, b)]

\* lines 77-95: the loop that pulls chars until one is to be written, the
\* source ends, the handler truncates, or the task fails.  The set of the
\* outcomes the handler's answers allow.
RECURSIVE encoder_pull(_, _, _)
encoder_pull(iter, handler, log) ==
    IF iter = << >>
    THEN { [kind |-> "None", iter |-> iter, c |-> 0, log |-> log] }
    ELSE LET c == Head(iter)
             rest == Tail(iter)
         IN  IF is_valid(c)
             THEN { [kind |-> "Char", iter |-> rest, c |-> c, log |-> log] }
             ELSE UNION {
                 LET log1 == Append(log, [arg |-> c, res |-> r])
                     checked(c1) ==
                         IF is_valid(c1)
                         THEN [kind |-> "Char", iter |-> rest, c |-> c1, log |-> log1]
                         ELSE [kind |-> "Fail", iter |-> rest, c |-> c1, log |-> log1]
                 IN  CASE r.tag = "EncodeAsReplacementChar" -> { checked(ReplacementChar) }
                       [] r.tag = "EncodeAs" -> { checked(r.c) }
                       [] r.tag = "SkipOutOfRangeChar" -> encoder_pull(rest, handler, log1)
                       [] r.tag = "TruncateEncoding" ->
                            { [kind |-> "None", iter |-> rest, c |-> c, log |-> log1] }
                       [] r.tag = "FailEncoding" ->
                            { [kind |-> "Fail", iter |-> rest, c |-> c, log |-> log1] }
                 : r \in out_of_range_raise(handler) }

\* lines 112-114: return buf[lo] and advance lo
EncoderEmit(e, staged, log) ==
    /\ enc' = [e EXCEPT !.lo = e.lo + 1]
    /\ e_ret' = RetSome(e.buf[e.lo + 1])
    /\ e_out' = Append(e_out, e.buf[e.lo + 1])
    /\ e_staged' = staged
    /\ e_log' = log
    /\ UNCHANGED e_eos

\* one call of UTF16Encoder::next
EncoderNext ==
    /\ phase = "enc"
    /\ e_ret.kind # "Fail"
    /\ LET e1 == encoder_bom(enc)
       IN  IF e1.lo = e1.hi
           THEN \E o \in encoder_pull(e1.iter, e_handler, e_log) :
                  LET e2 == [e1 EXCEPT !.iter = o.iter]
                  IN  CASE o.kind = "Char" ->
                             EncoderEmit(encoder_stage(e2, o.c), Append(e_staged, o.c), o.log)
                        [] o.kind = "None" ->
                             /\ enc' = e2
                             /\ e_ret' = RetNone
                             /\ e_eos' = TRUE
                             /\ e_log' = o.log
                             /\ UNCHANGED << e_out, e_staged >>
                        [] o.kind = "Fail" ->
                             /\ enc' = e2
                             /\ e_ret' = RetFail
                             /\ e_log' = o.log
                             /\ UNCHANGED << e_out, e_staged, e_eos >>
           ELSE EncoderEmit(e1, e_staged, e_log)
    /\ UNCHANGED << src0, encV, e_handler, decVars, phase >>


(* ------------------------------------------------------------------ *)
(* impl Decoder for utf16 (utf16.rs 47-55)                             *)
(* ------------------------------------------------------------------ *)
decode(variant, src) ==
    [ iter |-> Some(src),
      bom  |-> (variant = "utf16"),
      big  |-> (variant # "utf16le"),
      c    |-> None ]

(* ------------------------------------------------------------------ *)
(* UTF16Decoder::next (utf16.rs 142-226)                               *)
(* ------------------------------------------------------------------ *)
\* decoder_unit that ignores the decoder's byte order
decoder_unit_big(big, a, b) == (a * 256 + b) % 65536

\* lines 184-188: the code unit of the bytes a, b in the decoder's order
decoder_unit(big, a, b) ==
    IF big THEN (a * 256 + b) % 65536 ELSE (b * 256 + a) % 65536

\* decoder_pair that forgets the offset of the supplementary planes
decoder_pair_no_base(lead, trail) ==
    ((lead - LeadMin) * 1024) + (trail - TrailMin)

\* lines 200-203: the char of a lead and a trail unit; lead << 10 has its low
\* ten bits clear and trail < 0x400, so the | of the source is a sum
decoder_pair(lead, trail) ==
    (((lead - LeadMin) * 1024) + (trail - TrailMin)) + SuppBase

\* decoder_bom that takes a byte order mark for data
decoder_bom_ignored(a, b) == "data"

\* decoder_bom that knows the big-endian mark only
decoder_bom_big_only(a, b) == IF a = 254 /\ b = 255 THEN "big" ELSE "data"

\* lines 175-181: what the first unit read does to a decoder with bom set:
\* "big" / "little" when it is a byte order mark, "data" otherwise
decoder_bom(a, b) ==
    IF a = 254 /\ b = 255 THEN "big"
    ELSE IF a = 255 /\ b = 254 THEN "little"
    ELSE "data"

\* decoder_resolve that drops the unit on DecodeAsReplacementChar
decoder_resolve_drop(r, atEnd) ==
    CASE r.tag = "DecodeAsReplacementChar" -> IF atEnd THEN RetNone ELSE [kind |-> "loop", v |-> 0]
      [] r.tag = "DecodeAs" -> RetSome(r.c)
      [] r.tag = "SkipInvalidByte" -> IF atEnd THEN RetNone ELSE [kind |-> "loop", v |-> 0]
      [] r.tag = "TruncateDecoding" -> RetNone
      [] r.tag = "FailDecoding" -> RetFail

\* what a resolution makes next() do once the condition was raised:
\* lines 163-169 (atEnd: the stream ended inside a unit) and 215-221
decoder_resolve(r, atEnd) ==
    CASE r.tag = "DecodeAsReplacementChar" -> RetSome(ReplacementChar)
      [] r.tag = "DecodeAs" -> RetSome(r.c)
      [] r.tag = "SkipInvalidByte" -> IF atEnd THEN RetNone ELSE [kind |-> "loop", v |-> 0]
      [] r.tag = "TruncateDecoding" -> RetNone
      [] r.tag = "FailDecoding" -> RetFail

\* decoder_arg that always reports the unit just read
decoder_arg_own(carry, lead, a, b) == << a, b >>

\* lines 191 and 209-211: the bytes handed to the condition for an invalid
\* unit a, b: the held lead's when an ordinary unit follows it (carry), the
\* unit's own otherwise
decoder_arg(carry, lead, a, b) ==
    IF carry THEN << lead[1][2], lead[1][3] >> ELSE << a, b >>

\* lines 155-225: the loop of next(), from the decoder d and the local lead
\* (None or Some(<<unit, a, b>>)).  The set of outcomes the handler's answers
\* allow: what next() returns, the decoder afterwards, the raises made.
RECURSIVE decoder_loop(_, _, _, _)
decoder_loop(d, lead, handler, log) ==
    LET it == d.iter[1]
    IN  IF it = << >>
        THEN \* line 157: a is None
             { [ret |-> RetNone, dec |-> d, log |-> log] }
        ELSE IF Tail(it) = << >>
        THEN \* lines 160-170: b is None
             LET d1 == [d EXCEPT !.iter = None]
             IN  { [ret |-> decoder_resolve(r, TRUE), dec |-> d1,
                    log |-> Append(log, [arg |-> None, res |-> r, left |-> 0])]
                   : r \in invalid_byte_raise(handler) }
        ELSE LET a == it[1]
                 b == it[2]
                 rest == Tail(Tail(it))
                 d1 == [d EXCEPT !.iter = Some(rest)]
                 mark == IF d1.bom THEN decoder_bom(a, b) ELSE "data"
                 d2 == [d1 EXCEPT !.bom = FALSE]
             IN  IF mark = "big"
                 THEN decoder_loop([d2 EXCEPT !.big = TRUE], lead, handler, log)
                 ELSE IF mark = "little"
                 THEN decoder_loop([d2 EXCEPT !.big = FALSE], lead, handler, log)
                 ELSE
                 LET c == decoder_unit(d2.big, a, b)
                     isLead == c >= LeadMin /\ c <= LeadMax
                     isTrail == c >= TrailMin /\ c <= TrailMax
                     \* lines 206-212: an ordinary unit after a lead
                     carry == ~isLead /\ ~isTrail /\ lead # None
                     arg == decoder_arg(carry, lead, a, b)
                     d3 == IF carry THEN [d2 EXCEPT !.c = Some(c)] ELSE d2
                 IN  IF isLead /\ lead = None
                     THEN decoder_loop(d2, Some(<< c, a, b >>), handler, log)
                     ELSE IF isTrail /\ lead # None
                     THEN { [ret |-> RetSome(decoder_pair(lead[1][1], c)),
                             dec |-> d2, log |-> log] }
                     ELSE IF ~isLead /\ ~isTrail /\ lead = None
                     THEN { [ret |-> RetSome(c), dec |-> d2, log |-> log] }
                     ELSE \* lines 214-222: not valid
                          UNION {
                            LET log1 == Append(log, [arg |-> Some(arg), res |-> r,
                                                     left |-> Len(rest)])
                                ret == decoder_resolve(r, FALSE)
                            IN  IF ret.kind = "loop"
                                THEN decoder_loop(d3, lead, handler, log1)
                                ELSE { [ret |-> ret, dec |-> d3, log |-> log1] }
                            : r \in invalid_byte_raise(handler) }

\* UTF16Decoder::next (lines 142-226) from the decoder d: the set of outcomes
\* the handler's answers allow
decoder_next(d, handler) ==
    IF d.c # None
    THEN \* lines 145-147
         { [ret |-> RetSome(d.c[1]), dec |-> [d EXCEPT !.c = None], log |-> << >>] }
    ELSE IF d.iter = None
    THEN \* lines 149-151
         { [ret |-> RetNone, dec |-> d, log |-> << >>] }
    ELSE decoder_loop(d, None, handler, << >>)

\* one call of UTF16Decoder::next
DecoderNext ==
    /\ phase = "dec"
    /\ d_ret.kind # "Fail"
    /\ \E o \in decoder_next(dec, d_handler) :
            /\ dec' = o.dec
            /\ d_ret' = o.ret
            /\ d_out' = IF o.ret.kind = "Some" THEN Append(d_out, o.ret.v) ELSE d_out
            /\ d_eos' = (d_eos \/ o.ret.kind = "None")
            /\ d_log' = d_log \o [ i \in 1..Len(o.log) |->
                                    [ arg |-> o.log[i].arg, res |-> o.log[i].res,
                                      left |-> o.log[i].left, nout |-> Len(d_out) ] ]
    /\ UNCHANGED << bytes0, decV, d_handler, encVars, phase >>

(* ------------------------------------------------------------------ *)
(* Drivers (mod.rs 93-111: encode_as, decode_as)                       *)
(* ------------------------------------------------------------------ *)
\* the decoder before any byte stream was handed to it
Idle == decode("utf16be", << >>)

\* chars.encode_as(variant), with or without an out_of_range handler trapped
Init ==
    /\ src0 \in CharSources
    /\ encV \in Variants
    /\ e_handler \in BOOLEAN
    /\ enc = encode(encV, src0)
    /\ e_ret = NoCall
    /\ e_out = << >>
    /\ e_eos = FALSE
    /\ e_log = << >>
    /\ e_staged = << >>
    /\ phase = "enc"
    /\ dec = Idle
    /\ bytes0 = << >>
    /\ decV = "utf16be"
    /\ d_handler = FALSE
    /\ d_ret = NoCall
    /\ d_out = << >>
    /\ d_eos = FALSE
    /\ d_log = << >>

\* bytes.decode_as(variant) over the bytes collected from the encoder once it
\* has returned None; a session traps handlers for both conditions or for none
decode_as ==
    /\ phase = "enc"
    /\ e_eos
    /\ phase' = "dec"
    /\ \E v \in Variants :
         /\ decV' = v
         /\ dec' = decode(v, e_out)
    /\ bytes0' = e_out
    /\ d_handler' = e_handler
    /\ UNCHANGED << encVars, d_ret, d_out, d_eos, d_log >>

Next == EncoderNext \/ decode_as \/ DecoderNext

\* encoding a char source, then decoding what the encoder produced
Spec == Init /\ [][Next]_vars

\* bytes.decode_as(variant) over an arbitrary byte stream
InitDec ==
    /\ bytes0 \in ByteStreams
    /\ decV \in Variants
    /\ d_handler \in BOOLEAN
    /\ dec = decode(decV, bytes0)
    /\ d_ret = NoCall
    /\ d_out = << >>
    /\ d_eos = FALSE
    /\ d_log = << >>
    /\ phase = "dec"
    /\ src0 = << >>
    /\ encV = "utf16be"
    /\ e_handler = FALSE
    /\ enc = encode(encV, src0)
    /\ e_ret = NoCall
    /\ e_out = << >>
    /\ e_eos = FALSE
    /\ e_log = << >>
    /\ e_staged = << >>

NextDec == DecoderNext

SpecDec == InitDec /\ [][NextDec]_vars

(* ------------------------------------------------------------------ *)
(* VecReencoder::reencode (mod.rs 113-125)                             *)
(* ------------------------------------------------------------------ *)
\* reencode with the two variants exchanged
reencode_swapped(from, to, src) ==
    [ enc |-> encode(from, << >>), dec |-> decode(to, src) ]

\* lines 122-124: to.encode(from.decode(bytes)): the encoder's iter is the
\* decoder, held here beside it (the iter field of the record stays empty)
reencode(from, to, src) ==
    [ enc |-> encode(to, << >>), dec |-> decode(from, src) ]

\* the raises of one call of the decoder's next(), with the number of chars
\* the decoder had returned before the call
Stamp(log, n) ==
    [ i \in 1..Len(log) |-> [ arg |-> log[i].arg, res |-> log[i].res,
                              left |-> log[i].left, nout |-> n ] ]

\* utf16.rs 77-95 with the decoder d for self.iter: the loop that pulls
\* chars from d until one is to be written, d returns None, the handler
\* truncates, or the task fails (in the decoder or in the encoder).  The set
\* of the outcomes the handlers' answers allow; dout, dlog, elog are the
\* chars d has returned and the raises made so far.
RECURSIVE reencoder_pull(_, _, _, _, _, _)
reencoder_pull(d, dhandler, ehandler, dout, dlog, elog) ==
    UNION {
      LET dlog1 == dlog \o Stamp(o.log, Len(dout))
          end(kind, c, out, log) ==
              [ kind |-> kind, c |-> c, dec |-> o.dec, dret |-> o.ret,
                dout |-> out, dlog |-> dlog1, elog |-> log ]
      IN  IF o.ret.kind # "Some"
          THEN { end(o.ret.kind, 0, dout, elog) }
          ELSE LET c == o.ret.v
                   dout1 == Append(dout, c)
               IN  IF is_valid(c)
                   THEN { end("Char", c, dout1, elog) }
                   ELSE UNION {
                       LET elog1 == Append(elog, [arg |-> c, res |-> r])
                           checked(c1) ==
                               IF is_valid(c1)
                               THEN end("Char", c1, dout1, elog1)
                               ELSE end("Fail", c1, dout1, elog1)
                       IN  CASE r.tag = "EncodeAsReplacementChar" ->
                                  { checked(ReplacementChar) }
                             [] r.tag = "EncodeAs" -> { checked(r.c) }
                             [] r.tag = "SkipOutOfRangeChar" ->
                                  reencoder_pull(o.dec, dhandler, ehandler,
                                                 dout1, dlog1, elog1)
                             [] r.tag = "TruncateEncoding" ->
                                  { end("None", c, dout1, elog1) }
                             [] r.tag = "FailEncoding" ->
                                  { end("Fail", c, dout1, elog1) }
                       : r \in out_of_range_raise(ehandler) }
      : o \in decoder_next(d, dhandler) }

\* one call of next() on the iterator reencode returned, made by collect()
\* (utf16.rs 326), which stops at the first None
ReencoderNext ==
    /\ phase = "re"
    /\ e_ret.kind \notin {"None", "Fail"}
    /\ LET e1 == encoder_bom(enc)
       IN  IF e1.lo = e1.hi
           THEN \E o \in reencoder_pull(dec, d_handler, e_handler, d_out, d_log, e_log) :
                  /\ dec' = o.dec
                  /\ d_ret' = o.dret
                  /\ d_out' = o.dout
                  /\ d_log' = o.dlog
                  /\ d_eos' = (d_eos \/ o.dret.kind = "None")
                  /\ CASE o.kind = "Char" ->
                             EncoderEmit(encoder_stage(e1, o.c), Append(e_staged, o.c), o.elog)
                       [] o.kind = "None" ->
                             /\ enc' = e1
                             /\ e_ret' = RetNone
                             /\ e_eos' = TRUE
                             /\ e_log' = o.elog
                             /\ UNCHANGED << e_out, e_staged >>
                       [] o.kind = "Fail" ->
                             /\ enc' = e1
                             /\ e_ret' = RetFail
                             /\ e_log' = o.elog
                             /\ UNCHANGED << e_out, e_staged, e_eos >>
           ELSE /\ EncoderEmit(e1, e_staged, e_log)
                /\ UNCHANGED << dec, d_ret, d_out, d_log, d_eos >>
    /\ UNCHANGED << src0, encV, e_handler, bytes0, decV, d_handler, phase >>

\* bytes.reencode(from, to), with handlers trapped for both conditions or
\* for none
InitRe ==
    /\ bytes0 \in ReStreams
    /\ decV \in Variants
    /\ encV \in Variants
    /\ d_handler \in BOOLEAN
    /\ e_handler = d_handler
    /\ enc = reencode(decV, encV, bytes0).enc
    /\ dec = reencode(decV, encV, bytes0).dec
    /\ phase = "re"
    /\ src0 = << >>
    /\ e_ret = NoCall
    /\ e_out = << >>
    /\ e_eos = FALSE
    /\ e_log = << >>
    /\ e_staged = << >>
    /\ d_ret = NoCall
    /\ d_out = << >>
    /\ d_eos = FALSE
    /\ d_log = << >>

NextRe == ReencoderNext

SpecRe == InitRe /\ [][NextRe]_vars

(* ------------------------------------------------------------------ *)
(* The two stages run one after the other (mod.rs 93-111, collect)     *)
(* ------------------------------------------------------------------ *)
\* a log agrees with the answers already given: the same raises with the
\* same resolutions, as far as both go
Agrees(log, given) ==
    \A i \in 1..Min(Len(log), Len(given)) : log[i] = given[i]

\* bytes.decode_as(variant).collect(): next() called on the decoder d until
\* it returns None or the task fails, the handler answering as in given and
\* freely after that.  The set of runs: chars collected, raises made, how the
\* run ended.
RECURSIVE decode_all(_, _, _, _, _)
decode_all(d, handler, given, out, log) ==
    UNION {
      LET log1 == log \o Stamp(o.log, Len(out))
      IN  IF ~Agrees(log1, given) THEN {}
          ELSE IF o.ret.kind = "Some"
          THEN decode_all(o.dec, handler, given, Append(out, o.ret.v), log1)
          ELSE { [out |-> out, log |-> log1, end |-> o.ret.kind] }
      : o \in decoder_next(d, handler) }

\* chars.encode_as(variant).collect(): next() called on the encoder e until
\* it returns None or the task fails, the handler answering as in given and
\* freely after that.  The set of runs: bytes collected, raises made, how the
\* run ended.
RECURSIVE encode_all(_, _, _, _, _)
encode_all(e, handler, given, out, log) ==
    LET e1 == encoder_bom(e)
    IN  IF e1.lo # e1.hi
        THEN encode_all([e1 EXCEPT !.lo = e1.lo + 1], handler, given,
                        Append(out, e1.buf[e1.lo + 1]), log)
        ELSE UNION {
               IF ~Agrees(o.log, given) THEN {}
               ELSE IF o.kind = "Char"
               THEN LET e2 == encoder_stage([e1 EXCEPT !.iter = o.iter], o.c)
                    IN  encode_all([e2 EXCEPT !.lo = e2.lo + 1], handler, given,
                                   Append(out, e2.buf[e2.lo + 1]), o.log)
               ELSE { [out |-> out, log |-> o.log, end |-> o.kind] }
               : o \in encoder_pull(e1.iter, handler, log) }


(* ------------------------------------------------------------------ *)
(* Vocabulary of the properties                                        *)
(* ------------------------------------------------------------------ *)
AllValid(s) == \A i \in 1..Len(s) : s[i] \in ValidChars

IsPrefix(p, s) == Len(p) <= Len(s) /\ p = SubSeq(s, 1, Len(p))

\* a 16-bit unit on the wire: high byte first when big, low byte first otherwise
WireUnit(u, big) ==
    IF big THEN << u \div 256, u % 256 >> ELSE << u % 256, u \div 256 >>

\* a scalar on the wire: one unit up to 0xFFFF, a lead and a trail unit above
WireChar(s, big) ==
    IF s <= 65535
    THEN WireUnit(s, big)
    ELSE WireUnit(55296 + ((s - 65536) \div 1024), big)
         \o WireUnit(56320 + ((s - 65536) % 1024), big)

WireChars(s, big) == Flatten([ i \in 1..Len(s) |-> WireChar(s[i], big) ])

\* the chars UTF16Encoder::next has pulled from its source
Pulled == SubSeq(src0, 1, Len(src0) - Len(enc.iter))

\* the bytes written to buf and not yet returned
StagedLeft == enc.hi - enc.lo

\* all but the last n elements
DropLast(s, n) == SubSeq(s, 1, Len(s) - n)


(* ------------------------------------------------------------------ *)
(* C1: round trip of the endian-explicit variants                      *)
(* ------------------------------------------------------------------ *)
\* C1: for a source of valid scalars encoded with utf16be or utf16le and
\* decoded with the same variant, the chars the decoder returns are always a
\* prefix of the source and, once the decoder has returned None, exactly the
\* source; neither condition is ever raised and no task fails.
C1_RoundTrip ==
    (phase = "dec" /\ encV \in {"utf16be", "utf16le"} /\ decV = encV /\ AllValid(src0))
    => /\ bytes0 = WireChars(src0, encV = "utf16be")
       /\ IsPrefix(d_out, src0)
       /\ (d_eos => d_out = src0)
       /\ e_log = << >>
       /\ d_log = << >>
       /\ d_ret.kind # "Fail"

\* a little-endian round trip of two chars, the first a surrogate pair, is done
C1_Witness ==
    /\ phase = "dec" /\ encV = "utf16le" /\ decV = "utf16le"
    /\ Len(src0) = 2 /\ src0[1] = 129203 /\ src0[2] = 65279
    /\ d_eos /\ d_out = src0

(* ------------------------------------------------------------------ *)
(* C2: the wire format of the encoder                                  *)
(* ------------------------------------------------------------------ *)
\* the BOM once encoder_bom has written it
WrittenBom == IF encV = "utf16" /\ ~enc.bom THEN << 254, 255 >> ELSE << >>

\* C2: the bytes returned so far are the bytes of the chars written to buf,
\* each 2 bytes (one unit) up to 0xFFFF and 4 bytes (lead 0xD800 + (s' >> 10),
\* trail 0xDC00 + (s' & 0x3FF), s' = s - 0x10000) above, each unit high byte
\* first for utf16 / utf16be and low byte first for utf16le, less the bytes
\* still in buf; and the chars written are the chars pulled when the source
\* holds valid scalars only.
C2_WireFormat ==
    /\ e_out = DropLast(WrittenBom \o WireChars(e_staged, encV # "utf16le"), StagedLeft)
    /\ (AllValid(src0) => e_staged = Pulled)
    /\ (e_eos /\ AllValid(src0) =>
           /\ enc.iter = << >>
           /\ Len(e_out) = Len(WrittenBom)
                + 2 * Cardinality({ i \in 1..Len(src0) : src0[i] <= 65535 })
                + 4 * Cardinality({ i \in 1..Len(src0) : src0[i] > 65535 }))

\* U+10FFFF then 'A' were encoded little-endian: FF DB FF DF 41 00
C2_Witness ==
    /\ encV = "utf16le" /\ src0 = << 1114111, 65 >> /\ e_eos
    /\ e_out = << 255, 219, 255, 223, 65, 0 >>

(* ------------------------------------------------------------------ *)
(* C3: the BOM of the auto-variant encoder                             *)
(* ------------------------------------------------------------------ *)
\* C3: the utf16 encoder returns FE FF first: until both are out nothing has
\* been pulled from the source and next() has neither returned None nor
\* failed (so they are out for an empty source too); what follows them is the
\* big-endian encoding of the chars written, so the BOM is there once; and
\* the utf16be and utf16le encoders return the encoding of the chars written
\* with nothing before it.
C3_AutoBom ==
    /\ encV = "utf16" =>
         /\ IsPrefix(e_out, << 254, 255 >> \o WireChars(e_staged, TRUE))
         /\ (Len(e_out) < 2 =>
               /\ enc.iter = src0
               /\ e_staged = << >>
               /\ e_ret.kind \in {"NoCall", "Some"})
         /\ (e_ret.kind # "NoCall" => ~enc.bom)
         /\ (Len(e_out) >= 2 =>
               e_out = DropLast(<< 254, 255 >> \o WireChars(e_staged, TRUE), StagedLeft))
    /\ encV # "utf16" =>
         /\ ~enc.bom
         /\ e_out = DropLast(WireChars(e_staged, encV = "utf16be"), StagedLeft)

\* the utf16 encoder over an empty source has returned FE FF and then None
C3_Witness ==
    /\ encV = "utf16" /\ src0 = << >> /\ e_eos /\ e_out = << 254, 255 >>

(* ------------------------------------------------------------------ *)
(* C5: round trip of the auto variant                                  *)
(* ------------------------------------------------------------------ *)
\* C5: for a source of valid scalars (U+FEFF and U+FFFE among them, and the
\* empty source) encoded with utf16 and decoded with utf16, the chars the
\* decoder returns are always a prefix of the source and, once it has
\* returned None, exactly the source: the encoder's BOM is not among them.
C5_AutoRoundTrip ==
    (phase = "dec" /\ encV = "utf16" /\ decV = "utf16" /\ AllValid(src0))
    => /\ bytes0 = << 254, 255 >> \o WireChars(src0, TRUE)
       /\ IsPrefix(d_out, src0)
       /\ (d_eos => d_out = src0)
       /\ e_log = << >>
       /\ d_log = << >>
       /\ d_ret.kind # "Fail"

\* an auto round trip of a source that itself starts with U+FEFF is done
C5_Witness ==
    /\ phase = "dec" /\ encV = "utf16" /\ decV = "utf16"
    /\ src0 = << 65279, 65534 >>
    /\ d_eos /\ d_out = src0


(* ------------------------------------------------------------------ *)
(* Vocabulary of the decoder properties                                *)
(* ------------------------------------------------------------------ *)
\* the chars next() returns, call after call, until it returns None, when no
\* handler is trapped
RECURSIVE DrainDefault(_, _)
DrainDefault(d, out) ==
    IF d.c # None
    THEN DrainDefault([d EXCEPT !.c = None], Append(out, d.c[1]))
    ELSE IF d.iter = None
    THEN out
    ELSE LET o == CHOOSE x \in decoder_loop(d, None, FALSE, << >>) : TRUE
         IN  IF o.ret.kind = "Some"
             THEN DrainDefault(o.dec, Append(out, o.ret.v))
             ELSE out

\* the stream starts with the bytes FE FF / FF FE
StartsFEFF == Len(bytes0) >= 2 /\ bytes0[1] = 254 /\ bytes0[2] = 255
StartsFFFE == Len(bytes0) >= 2 /\ bytes0[1] = 255 /\ bytes0[2] = 254

\* the number of bytes the decoder has taken from its stream
BytesRead == Len(bytes0) - (IF dec.iter = None THEN 0 ELSE Len(dec.iter[1]))

\* the number of complete units in the stream, and the k-th of them read in
\* the byte order the decoder is in
UnitCount == Len(bytes0) \div 2
PairAt(k) == << bytes0[2 * k - 1], bytes0[2 * k] >>
Unit16(big, p) == IF big THEN p[1] * 256 + p[2] ELSE p[2] * 256 + p[1]
UnitAt(k) == Unit16(dec.big, PairAt(k))
IsLeadUnit(u) == u >= 55296 /\ u <= 56319
IsTrailUnit(u) == u >= 56320 /\ u <= 57343

\* the k-th unit is the byte order mark the utf16 decoder consumes
ConsumedBom(k) == k = 1 /\ decV = "utf16" /\ (StartsFEFF \/ StartsFFFE)

\* the raises made while the k-th unit was the last one read
RaisesAt(k) ==
    { i \in 1..Len(d_log) :
        d_log[i].arg # None /\ d_log[i].left = Len(bytes0) - 2 * k }

(* ------------------------------------------------------------------ *)
(* C4: BOM detection of the auto-variant decoder                       *)
(* ------------------------------------------------------------------ *)
\* C4: once the utf16 decoder has read the first unit, bom is clear and big
\* is false exactly when the stream starts FF FE; and, with no handler
\* trapped, the chars it returns are those the utf16be decoder returns for
\* the bytes after a leading FE FF, those the utf16le decoder returns for the
\* bytes after a leading FF FE, and those the utf16be decoder returns for the
\* whole stream otherwise.  A leading mark never raises invalid_byte and,
\* when it is all there is, no char is ever returned.
C4_BomDetection ==
    decV = "utf16" =>
      /\ (d_ret.kind # "NoCall" /\ Len(bytes0) >= 2) =>
            (~dec.bom /\ dec.big = ~StartsFFFE)
      /\ (StartsFEFF \/ StartsFFFE) =>
            (RaisesAt(1) = {} /\ (Len(bytes0) = 2 => d_out = << >>))
      /\ ~d_handler =>
            LET rest == IF StartsFEFF \/ StartsFFFE
                        THEN SubSeq(bytes0, 3, Len(bytes0)) ELSE bytes0
                as == IF StartsFFFE THEN "utf16le" ELSE "utf16be"
                ref == DrainDefault(decode(as, rest), << >>)
            IN  /\ IsPrefix(d_out, ref)
                /\ (d_eos => d_out = ref)

\* FF FE 00 D8 00 DC was decoded by the utf16 decoder to U+10000 alone
C4_Witness ==
    /\ decV = "utf16" /\ ~d_handler /\ bytes0 = << 255, 254, 0, 216, 0, 220 >>
    /\ d_eos /\ d_out = << 65536 >> /\ ~dec.big

(* ------------------------------------------------------------------ *)
(* C8: a trail surrogate with no lead held                             *)
(* ------------------------------------------------------------------ *)
\* with no handler trapped a lead is held only from the unit before, so the
\* k-th unit is read with no lead held when it is the first or follows a
\* unit that is no lead
OrphanTrailAt(k) ==
    /\ k \in 1..UnitCount
    /\ 2 * k <= BytesRead
    /\ ~ConsumedBom(k)
    /\ IsTrailUnit(UnitAt(k))
    /\ (k = 1 \/ ~IsLeadUnit(UnitAt(k - 1)))

\* C8: a raise whose argument is a trail unit carries the two bytes of the
\* unit just read; and with no handler trapped, for every trail unit read
\* with no lead held, invalid_byte was raised exactly once, with that unit's
\* own bytes, the call returned U+FFFD and nothing was carried (one char for
\* it), the task did not fail, and next() goes on to the units after it: it
\* returns None only when the stream is used up.
C8_OrphanTrail ==
    /\ \A i \in 1..Len(d_log) :
          (d_log[i].arg # None /\ IsTrailUnit(Unit16(dec.big, d_log[i].arg[1])))
          => LET at == Len(bytes0) - d_log[i].left
             IN  d_log[i].arg[1] = << bytes0[at - 1], bytes0[at] >>
    /\ ~d_handler =>
         /\ \A k \in 1..UnitCount :
              OrphanTrailAt(k) =>
                /\ Cardinality(RaisesAt(k)) = 1
                /\ \A i \in RaisesAt(k) :
                     /\ d_log[i].arg = Some(PairAt(k))
                     /\ Len(d_out) > d_log[i].nout
                     /\ d_out[d_log[i].nout + 1] = ReplacementChar
                     /\ (\A j \in 1..Len(d_log) : j # i => d_log[j].nout # d_log[i].nout)
                     /\ (BytesRead = 2 * k =>
                           /\ dec.c = None
                           /\ dec.iter = Some(SubSeq(bytes0, 2 * k + 1, Len(bytes0))))
         /\ d_ret.kind # "Fail"
         /\ (d_eos => BytesRead = Len(bytes0))

\* big-endian 'A', DC00, 'A' was decoded to 'A', U+FFFD, 'A' with one raise
C8_Witness ==
    /\ decV = "utf16be" /\ ~d_handler
    /\ bytes0 = << 0, 65, 220, 0, 0, 65 >>
    /\ d_eos /\ d_out = << 65, 65533, 65 >>
    /\ Len(d_log) = 1 /\ d_log[1].arg = Some(<< 220, 0 >>)


(* ------------------------------------------------------------------ *)
(* C6: the decoder checks for a BOM once                               *)
(* ------------------------------------------------------------------ *)
\* the number of places of s that hold x
Count(s, x) == Cardinality({ i \in 1..Len(s) : s[i] = x })

\* the complete units of the stream that are 0xFEFF in the decoder's byte
\* order and were not consumed as the byte order mark
LaterFEFF == { k \in 1..UnitCount : ~ConsumedBom(k) /\ UnitAt(k) = 65279 }

\* C6: a utf16be / utf16le decoder never has bom set and never changes big;
\* a utf16 decoder has bom clear and its byte order settled by the first
\* unit alone once it has read it; and every unit 0xFEFF that is not that
\* first unit is returned as the char U+FEFF: once the stream is read to its
\* end and nothing is carried, U+FEFF was returned once for each of them.
C6_OneTimeBom ==
    /\ decV # "utf16" => (~dec.bom /\ dec.big = (decV = "utf16be"))
    /\ (decV = "utf16" /\ d_ret.kind # "NoCall" /\ Len(bytes0) >= 2) =>
          (~dec.bom /\ dec.big = ~StartsFFFE)
    /\ (BytesRead = Len(bytes0) /\ dec.c = None /\ d_ret.kind \notin {"NoCall", "Fail"}) =>
          Count(d_out, 65279) = Cardinality(LaterFEFF)

(* ------------------------------------------------------------------ *)
(* C7: a stream that ends inside a unit                                *)
(* ------------------------------------------------------------------ *)
\* the raises with argument None
NoneRaises == { i \in 1..Len(d_log) : d_log[i].arg = None }

\* C7: invalid_byte is raised with None at most once, and exactly when the
\* decoder has given up its stream (iter = None), which it does for a stream
\* of odd length only; the char the resolution gives (U+FFFD with no handler
\* trapped, the handler's char for DecodeAs) is the last char ever returned,
\* and for SkipInvalidByte and TruncateDecoding no char is returned by that
\* call or any later one.
C7_TruncatedTail ==
    /\ Cardinality(NoneRaises) <= 1
    /\ (NoneRaises # {}) <=> (dec.iter = None)
    /\ (dec.iter = None) => (Len(bytes0) % 2 = 1)
    /\ \A i \in NoneRaises :
         LET e == d_log[i]
         IN  /\ ~d_handler =>
                  (d_out = Append(SubSeq(d_out, 1, e.nout), ReplacementChar))
             /\ (d_handler /\ e.res.tag = "DecodeAs") =>
                  (d_out = Append(SubSeq(d_out, 1, e.nout), e.res.c))
             /\ (d_handler /\ e.res.tag \in {"SkipInvalidByte", "TruncateDecoding"}) =>
                  (Len(d_out) = e.nout)


(* ------------------------------------------------------------------ *)
(* C9: a lead surrogate that is the last complete unit                 *)
(* ------------------------------------------------------------------ *)
\* C9: with no handler trapped, once next() has returned None for a stream
\* whose last complete unit is a lead surrogate, invalid_byte was raised for
\* that unit and U+FFFD was returned for it.
C9_UnpairedLeadAtEnd ==
    (~d_handler /\ d_eos /\ UnitCount >= 1 /\ ~ConsumedBom(UnitCount)
       /\ IsLeadUnit(UnitAt(UnitCount)))
    => \E i \in 1..Len(d_log) :
          /\ d_log[i].arg = Some(PairAt(UnitCount))
          /\ Len(d_out) > d_log[i].nout
          /\ d_out[d_log[i].nout + 1] = ReplacementChar

(* ------------------------------------------------------------------ *)
(* C10: the encoder's end of stream                                    *)
(* ------------------------------------------------------------------ *)
\* C10: once UTF16Encoder::next has returned None, every later call returns
\* None and no further byte is returned.
C10_EncoderEosSticky ==
    [][ e_eos => (e_ret' = RetNone /\ e_out' = e_out) ]_vars

(* ------------------------------------------------------------------ *)
(* C11: the decoder's end of stream                                    *)
(* ------------------------------------------------------------------ *)
\* C11: once UTF16Decoder::next has returned None and no code point is
\* carried, every later call returns None, returns no character and pulls no
\* byte.
C11_DecoderEosSticky ==
    [][ (d_eos /\ dec.c = None)
          => (d_ret' = RetNone /\ d_out' = d_out /\ dec'.iter = dec.iter) ]_vars

(* ------------------------------------------------------------------ *)
(* C13: the surrogate pair of test_utf16be_encode                      *)
(* ------------------------------------------------------------------ *)
\* C13 (as stated): the utf16be encoding of the scalar 0x1F8B3 is exactly
\* D8 47 DE 33, and utf16be decoding of D8 47 DE 33 returns 0x1F8B3.
C13_PairOf1F8B3 ==
    /\ (encV = "utf16be" /\ src0 = << 129203 >> /\ e_eos)
         => e_out = << 216, 71, 222, 51 >>
    /\ (phase = "dec" /\ decV = "utf16be" /\ bytes0 = << 216, 71, 222, 51 >> /\ d_eos)
         => d_out = << 129203 >>

\* C13 (amended): the utf16be encoding of the scalar 0x21E33 is exactly
\* D8 47 DE 33, and utf16be decoding of D8 47 DE 33 returns 0x21E33.
C13_PairOf21E33 ==
    /\ (encV = "utf16be" /\ src0 = << 138803 >> /\ e_eos)
         => e_out = << 216, 71, 222, 51 >>
    /\ (phase = "dec" /\ decV = "utf16be" /\ bytes0 = << 216, 71, 222, 51 >> /\ d_eos)
         => d_out = << 138803 >>

C13_Witness ==
    /\ phase = "dec" /\ encV = "utf16be" /\ decV = "utf16be"
    /\ src0 = << 138803 >>
    /\ bytes0 = << 216, 71, 222, 51 >>
    /\ d_eos
    /\ d_out = << 138803 >>

(* ------------------------------------------------------------------ *)
(* C14: the auto variant's output read by the big-endian decoder       *)
(* ------------------------------------------------------------------ *)
\* C14 (as stated): for a source s of valid scalars encoded with utf16, the
\* utf16be decoder over the bytes produced returns exactly s.
C14_AutoThenBigExact ==
    (phase = "dec" /\ encV = "utf16" /\ decV = "utf16be" /\ AllValid(src0))
    => /\ IsPrefix(d_out, src0)
       /\ d_eos => d_out = src0

\* C14 (amended): for a source s of valid scalars encoded with utf16, the
\* utf16be decoder over the bytes produced returns U+FEFF, the byte order
\* mark the encoder wrote, and then exactly s; it raises no condition.
C14_AutoThenBigMark ==
    (phase = "dec" /\ encV = "utf16" /\ decV = "utf16be" /\ AllValid(src0))
    => /\ IsPrefix(d_out, << BOM >> \o src0)
       /\ d_eos => d_out = << BOM >> \o src0
       /\ d_log = << >>
       /\ d_ret.kind # "Fail"

C14_Witness ==
    /\ phase = "dec" /\ encV = "utf16" /\ decV = "utf16be"
    /\ src0 = << 138803, 65 >>
    /\ d_eos
    /\ d_out = << 65279, 138803, 65 >>

(* ------------------------------------------------------------------ *)
(* C15: an ordinary unit after a held lead                             *)
(* ------------------------------------------------------------------ *)
\* the unit that was the last one read when the i-th raise was made
RaisedAt(i) == (Len(bytes0) - d_log[i].left) \div 2

\* the raises made on reading an ordinary (non-surrogate) unit: such a unit
\* is invalid only by the lead held when it is read (lines 206-213)
CarryRaises ==
    { i \in 1..Len(d_log) :
        /\ d_log[i].arg # None
        /\ ~IsLeadUnit(UnitAt(RaisedAt(i)))
        /\ ~IsTrailUnit(UnitAt(RaisedAt(i))) }

\* the char a resolution makes next() return, if it makes it return one
YieldsChar(r) == r.tag \in {"DecodeAsReplacementChar", "DecodeAs"}
CharOf(r) == IF r.tag = "DecodeAs" THEN r.c ELSE ReplacementChar

\* C15: when an ordinary unit u is read while a lead is held, invalid_byte is
\* raised with the raw bytes of a lead read earlier and still held (the unit
\* just before u when no handler is trapped), not with u's bytes; when the
\* resolution gives a character, that character is returned by the call that
\* read u, u's scalar is carried with no further byte pulled, and the next
\* call returns u's scalar, having pulled no byte and raised nothing.
C15_OrdinaryAfterLead ==
    \A i \in CarryRaises :
       LET e == d_log[i]
           k == RaisedAt(i)
       IN  /\ k >= 2
           /\ e.arg[1] # PairAt(k)
           /\ \E j \in 1..(k - 1) :
                 /\ e.arg[1] = PairAt(j)
                 /\ IsLeadUnit(UnitAt(j))
                 /\ \A m \in (j + 1)..(k - 1) : ~IsTrailUnit(UnitAt(m))
           /\ ~d_handler => e.arg[1] = PairAt(k - 1)
           /\ YieldsChar(e.res) =>
                 /\ Len(d_out) >= e.nout + 1
                 /\ d_out[e.nout + 1] = CharOf(e.res)
                 /\ IF Len(d_out) = e.nout + 1
                    THEN dec.c = Some(UnitAt(k)) /\ BytesRead = 2 * k
                    ELSE /\ d_out[e.nout + 2] = UnitAt(k)
                         /\ (Len(d_out) = e.nout + 2 /\ d_ret.kind = "Some")
                              => (BytesRead = 2 * k /\ i = Len(d_log))

C15_Witness ==
    /\ decV = "utf16be" /\ d_handler
    /\ bytes0 = << 216, 1, 0, 65, 220, 0 >>
    /\ Len(d_log) = 1
    /\ d_log[1].arg = Some(<< 216, 1 >>)
    /\ d_log[1].res.tag = "DecodeAs"
    /\ d_out = << 55296, 65 >>
    /\ BytesRead = 4

(* ------------------------------------------------------------------ *)
(* C16: the carried code point                                         *)
(* ------------------------------------------------------------------ *)
\* C16: the scalar of an ordinary unit stored in self.c (on a raise for the
\* lead held before it) is never lost: until a call has returned it, it stays
\* in self.c and no further byte is pulled; it is the next char returned
\* after the char, if any, that the resolution of that raise gives.
C16_CarriedNeverLost ==
    \A i \in CarryRaises :
       LET e == d_log[i]
           k == RaisedAt(i)
           at == e.nout + (IF YieldsChar(e.res) THEN 2 ELSE 1)
       IN  (d_ret.kind # "Fail")
           => IF Len(d_out) >= at
              THEN d_out[at] = UnitAt(k)
              ELSE dec.c = Some(UnitAt(k)) /\ BytesRead = 2 * k

(* ------------------------------------------------------------------ *)
(* C17, C18: two lead surrogates in a row                              *)
(* ------------------------------------------------------------------ *)
\* the raises made on reading a lead surrogate: a lead is invalid only by
\* the lead held when it is read (lines 192-197)
LeadRaises ==
    { i \in 1..Len(d_log) :
        d_log[i].arg # None /\ IsLeadUnit(UnitAt(RaisedAt(i))) }

\* C17: when a lead surrogate is read while a lead is held, invalid_byte is
\* raised with the raw bytes of the earlier lead (the unit just before when
\* no handler is trapped), not with the bytes of the lead just read.
C17_TwoLeadsReported ==
    \A i \in LeadRaises :
       LET e == d_log[i]
           k == RaisedAt(i)
       IN  /\ k >= 2
           /\ \E j \in 1..(k - 1) :
                 e.arg[1] = PairAt(j) /\ IsLeadUnit(UnitAt(j))
           /\ ~d_handler => e.arg[1] = PairAt(k - 1)

\* C18: after the raise for two leads in a row is resolved by a replacement,
\* a substitute or a skip, the later lead is held: once the trail surrogate
\* that follows it is read, the next char returned after the resolution's
\* own is the scalar of the pair (later lead, trail), and nothing is raised
\* for the trail.  With no handler trapped L1 L2 T gives U+FFFD, then the
\* scalar of (L2, T).
C18_TwoLeadsRetained ==
    \A i \in LeadRaises :
       LET e == d_log[i]
           k == RaisedAt(i)
           at == e.nout + (IF YieldsChar(e.res) THEN 2 ELSE 1)
       IN  ( /\ e.res.tag \in {"DecodeAsReplacementChar", "DecodeAs", "SkipInvalidByte"}
             /\ k + 1 <= UnitCount
             /\ IsTrailUnit(UnitAt(k + 1))
             /\ BytesRead >= 2 * (k + 1)
             /\ d_ret.kind # "Fail" )
           => /\ Len(d_out) >= at
              /\ d_out[at] = decoder_pair(UnitAt(k), UnitAt(k + 1))
              /\ RaisesAt(k + 1) = {}

(* ------------------------------------------------------------------ *)
(* C19: the encoder with no handler trapped                            *)
(* ------------------------------------------------------------------ *)
\* a code point that is a surrogate or lies above 0x10FFFF
OutOfRange(c) == (c >= 55296 /\ c <= 57343) \/ c > 1114111

\* s with U+FFFD in the place of every such code point
Replaced(s) == [ i \in 1..Len(s) |-> IF OutOfRange(s[i]) THEN 65533 ELSE s[i] ]

\* the out-of-range code points of s, in order
RECURSIVE Invalids(_)
Invalids(s) ==
    IF s = << >> THEN << >>
    ELSE IF OutOfRange(Head(s)) THEN << Head(s) >> \o Invalids(Tail(s))
    ELSE Invalids(Tail(s))

\* C19: with no out_of_range handler trapped, the bytes returned are the
\* encoding, in the encoder's byte order, of the chars pulled with U+FFFD in
\* the place of every code point in 0xD800-0xDFFF or above 0x10FFFF (FF FD
\* big-endian, FD FF little-endian, where that code point stood); the
\* condition is raised once for each of them, in order; the task never
\* fails, and None is returned only when the source is empty.
C19_EncoderDefault ==
    ~e_handler
    => /\ e_staged = Replaced(Pulled)
       /\ e_out = DropLast(WrittenBom \o WireChars(Replaced(Pulled), encV # "utf16le"),
                           StagedLeft)
       /\ [ i \in 1..Len(e_log) |-> e_log[i].arg ] = Invalids(Pulled)
       /\ e_ret.kind # "Fail"
       /\ e_eos => enc.iter = << >>

\* 0xD800 then 'A' were encoded little-endian with no handler: FD FF 41 00
C19_Witness ==
    /\ ~e_handler /\ encV = "utf16le" /\ src0 = << 55296, 65 >> /\ e_eos
    /\ e_out = << 253, 255, 65, 0 >>
    /\ Len(e_log) = 1

(* ------------------------------------------------------------------ *)
(* C20: the encoder's buffer                                           *)
(* ------------------------------------------------------------------ *)
\* C20: 0 <= lo <= hi <= 4 and hi is 0, 2 or 4; the bytes returned are the
\* bytes written to buf for the BOM and the chars staged, in order, less
\* the hi - lo bytes still in buf; a call made while lo < hi returns buf[lo],
\* advances lo and touches neither the source nor the rest of the encoder;
\* a char is pulled from the source only by a call that finds lo = hi and no
\* BOM pending.
C20_EncoderBuffer ==
    /\ [](/\ 0 <= enc.lo /\ enc.lo <= enc.hi /\ enc.hi <= BufLen
          /\ enc.hi \in {0, 2, 4}
          /\ e_out = DropLast(WrittenBom \o WireChars(e_staged, encV # "utf16le"),
                              StagedLeft))
    /\ [][ (phase' = "enc" /\ enc.lo < enc.hi)
             => /\ e_ret' = RetSome(enc.buf[enc.lo + 1])
                /\ enc' = [enc EXCEPT !.lo = enc.lo + 1] ]_vars
    /\ [][ (enc'.iter # enc.iter) => (enc.lo = enc.hi /\ ~enc.bom) ]_vars

\* U+10FFFF is staged big-endian and two of its four bytes are out
C20_Witness ==
    /\ encV = "utf16be" /\ src0 = << 1114111, 65 >>
    /\ enc.lo = 2 /\ enc.hi = 4
    /\ e_out = << 219, 255 >>
    /\ enc.iter = << 65 >>

(* ------------------------------------------------------------------ *)
(* C12: reencode against decoding, then encoding                       *)
(* ------------------------------------------------------------------ *)
\* collect() over the reencoding iterator has ended: next() returned None,
\* or the task failed
ReTerminal == phase = "re" /\ e_ret.kind \in {"None", "Fail"}

\* it ended by the encoder alone (TruncateEncoding, FailEncoding, or a
\* substitute that is out of range): the decoder had neither returned None
\* nor failed
EncoderStopped == ReTerminal /\ ~d_eos /\ d_ret.kind # "Fail"

\* the runs of the decoding stage alone over the same bytes, and of the
\* encoding stage alone over chars, with the handlers answering the raises
\* the reencoding made as they answered them there
EagerDecodes == decode_all(decode(decV, bytes0), d_handler, d_log, << >>, << >>)
EagerEncodes(chars) == encode_all(encode(encV, chars), e_handler, e_log, << >>, << >>)

\* C12 (as stated): when reencode(bytes, X, Y) has been collected, decoding
\* bytes fully with X and then encoding the chars fully with Y, the handlers
\* answering alike, raises invalid_byte and out_of_range at exactly the same
\* events in the same order and gives byte for byte the same sequence (or
\* fails as the reencoding failed).
C12_ReencodeSameEvents ==
    ReTerminal
    => \E od \in EagerDecodes :
          /\ od.log = d_log
          /\ od.end = "Fail" => e_ret.kind = "Fail"
          /\ od.end = "None" =>
                \E oe \in EagerEncodes(od.out) :
                   oe.out = e_out /\ oe.log = e_log /\ oe.end = e_ret.kind

\* C12 (amended): when reencode(bytes, X, Y) has been collected, every
\* decoding of bytes with X in which the handler answers alike makes the
\* raises the reencoding made, in the same order, first; unless the encoder
\* stopped on its own it makes no others, returns None or fails as the
\* reencoding's decoder did and collects the chars that decoder returned;
\* and whenever it returns None, encoding its chars with Y raises
\* out_of_range at exactly the same events in the same order, returns byte
\* for byte the same sequence and ends (None or failure) the same way.
C12_ReencodeComposition ==
    ReTerminal
    => LET runs == EagerDecodes
           collected == { od.out : od \in { x \in runs : x.end = "None" } }
       IN  /\ runs # {}
           /\ \A od \in runs :
                 /\ IsPrefix(d_log, od.log)
                 /\ ~EncoderStopped =>
                       (od.log = d_log /\ od.out = d_out /\ od.end = d_ret.kind)
           /\ \A chars \in collected :
                 LET encoded == EagerEncodes(chars)
                 IN  /\ encoded # {}
                     /\ \A oe \in encoded :
                           oe.out = e_out /\ oe.log = e_log /\ oe.end = e_ret.kind

\* the little-endian pair 00 D8 00 DC was reencoded to big-endian D8 00 DC 00
C12_Witness ==
    /\ phase = "re" /\ decV = "utf16le" /\ encV = "utf16be"
    /\ bytes0 = << 0, 216, 0, 220 >>
    /\ e_ret = RetNone
    /\ d_out = << 65536 >>
    /\ e_out = << 216, 0, 220, 0 >>

====
